---- MODULE Spec2Model ----
(***************************************************************************)
(* Model of packages/truffle-codec/lib/decode/value.ts: the value decode   *)
(* dispatcher decodeValue (a generator that suspends for the byte-range    *)
(* read and for a code fetch), decodeContract, decodeExternalFunction,     *)
(* decodeInternalFunction and the three padding checks.                    *)
(*                                                                         *)
(* Bytes are sequences over 0..255.  A BN is its canonical big-endian      *)
(* base-256 digit string (no leading zero digit; zero is <<>>), so numbers *)
(* up to 2^256 are represented exactly.                                    *)
(***************************************************************************)
EXTENDS Integers, Sequences, FiniteSets, TLC

VARIABLES dataType, mode, info, pc, bytes, fetched, result, requests, tableReads

vars == <<dataType, mode, info, pc, bytes, fetched, result, requests, tableReads>>

(* ---------- sizes (CodecUtils.EVM) ---------- *)
WORD_SIZE == 32
ADDRESS_SIZE == 20
SELECTOR_SIZE == 4
PC_SIZE == 4

(* ---------- bounds of the explored inputs ---------- *)
MaxOptions == 3
MaxContexts == 2
MaxPc == 2

Min(S) == CHOOSE x \in S : \A y \in S : x <= y
Max2(a, b) == IF a >= b THEN a ELSE b
Min2(a, b) == IF a <= b THEN a ELSE b

(* ---------- Uint8Array.prototype.slice ---------- *)
\* relative index of slice: negative counts from the end, clamped to [0, len];
\* a length of 0 gives -0 = 0, the start of the array
RelIndex(i, len) == IF i < 0 THEN Max2(len + i, 0) ELSE Min2(i, len)

slice(b, start, end) ==
  SubSeq(b, RelIndex(start, Len(b)) + 1, RelIndex(end, Len(b)))

sliceFrom(b, start) == slice(b, start, Len(b))

\* Array.prototype.every(x => x === v)
everyEquals(b, v) == \A i \in 1..Len(b) : b[i] = v

(* ---------- CodecUtils.Conversion ---------- *)
\* toBN: the unsigned big-endian value, as a canonical digit string
toBN(b) ==
  LET nz == {i \in 1..Len(b) : b[i] # 0}
  IN  IF nz = {} THEN <<>> ELSE SubSeq(b, Min(nz), Len(b))

RECURSIVE BNaddn1(_)
\* bn + 1 on a digit string
BNaddn1(d) ==
  IF d = <<>> THEN <<1>>
  ELSE IF d[Len(d)] = 255
       THEN BNaddn1(SubSeq(d, 1, Len(d) - 1)) \o <<0>>
       ELSE SubSeq(d, 1, Len(d) - 1) \o <<d[Len(d)] + 1>>

\* toSignedBN: two's complement value; negative = -(complement + 1)
toSignedBN(b) ==
  IF Len(b) > 0 /\ b[1] < 128
  THEN [neg |-> FALSE, mag |-> toBN(b)]
  ELSE [neg |-> TRUE, mag |-> BNaddn1(toBN([i \in 1..Len(b) |-> 255 - b[i]]))]

\* toHexString: two hex digits per byte (the "0x" prefix is implicit)
toHexString(b) ==
  [i \in 1..(2 * Len(b)) |->
     IF i % 2 = 1 THEN b[(i + 1) \div 2] \div 16 ELSE b[i \div 2] % 16]

\* toAddress: the rightmost ADDRESS_SIZE bytes, left-padded with zeros, as hex
toAddress(b) ==
  toHexString(
    IF Len(b) >= ADDRESS_SIZE THEN sliceFrom(b, -ADDRESS_SIZE)
    ELSE [i \in 1..(ADDRESS_SIZE - Len(b)) |-> 0] \o b)

RECURSIVE toNumber(_)
\* BN.toNumber, used on digit strings of at most two digits
toNumber(d) ==
  IF d = <<>> THEN 0
  ELSE 256 * toNumber(SubSeq(d, 1, Len(d) - 1)) + d[Len(d)]

\* BN.eqn / BN.ltn against a small number
eqn(d, n) == Len(d) <= 2 /\ toNumber(d) = n
ltn(d, n) == Len(d) <= 2 /\ toNumber(d) < n

(* ---------- padding checks ---------- *)
\* a variant that looks at the first length bytes instead of the rest
checkPaddingRight_wrongSide(b, length) ==
  LET padding == slice(b, 0, length)
  IN  everyEquals(padding, 0)

checkPaddingRight(b, length) ==
  LET padding == sliceFrom(b, length)
  IN  everyEquals(padding, 0)

\* a variant that looks at the word after its truncation to length bytes
checkPaddingLeft_truncated(b, length) ==
  LET padding == slice(sliceFrom(b, -length), 0, -length)
  IN  everyEquals(padding, 0)

checkPaddingLeft(b, length) ==
  LET padding == slice(b, 0, -length)
  IN  everyEquals(padding, 0)

\* a variant that takes the sign from the first byte of the whole word
checkPaddingSigned_wordSign(b, length) ==
  LET padding == slice(b, 0, -length)
      signByte == IF (b[1] \div 128) % 2 = 1 THEN 255 ELSE 0
  IN  everyEquals(padding, signByte)

checkPaddingSigned(b, length) ==
  LET padding == slice(b, 0, -length)
      value == sliceFrom(b, -length)
      signByte == IF (value[1] \div 128) % 2 = 1 THEN 255 ELSE 0
  IN  everyEquals(padding, signByte)

(* ---------- results ---------- *)
NoResult == [kind |-> "none"]
ReturnUndefined == [kind |-> "undefined"]
Value(type, v) == [kind |-> "value", result |-> type, value |-> v]
ErrorResult(type, err, diag) ==
  [kind |-> "error", result |-> type, error |-> err, diagnostic |-> diag]
Throw(err) == [kind |-> "throw", error |-> err]
Yield(req) == [kind |-> "yield", request |-> req]

\* a variant that throws in every mode
StopOrError_always(isStrict, res) == Throw("StopDecodingError")

\* if(strict) { throw new StopDecodingError(); } return <error result>;
StopOrError(isStrict, res) ==
  IF isStrict THEN Throw("StopDecodingError") ELSE res

\* a variant that never skips the padding checks
permissivePadding_never(m) == FALSE

permissivePadding(m) == m = "permissive"
strict(m) == m = "strict"

(* ---------- Types.fullType ---------- *)
\* resolves an enum's options against the user-defined-type registry
fullType(type, userDefinedTypes) ==
  IF type.typeClass = "enum"
  THEN IF type.id \in DOMAIN userDefinedTypes
       THEN [type EXCEPT !.hasOptions = TRUE,
                         !.options = userDefinedTypes[type.id].options]
       ELSE type
  ELSE type

\* Math.ceil(Math.log2(numOptions) / 8) for numOptions >= 1:
\* the least k with 256^k >= numOptions
RECURSIVE ceilLog2Div8(_)
ceilLog2Div8(numOptions) ==
  IF numOptions <= 1 THEN 0 ELSE 1 + ceilLog2Div8((numOptions + 255) \div 256)

(* ---------- Contexts.findDecoderContext / contextToType ---------- *)
\* the index of the first context whose binary is the fetched code, 0 for null
findDecoderContext(contexts, code) ==
  LET hits == {i \in 1..Len(contexts) : contexts[i].binary = code}
  IN  IF hits = {} THEN 0 ELSE Min(hits)

contextToType(context) ==
  [typeClass |-> "contract", id |-> context.contractId,
   typeName |-> context.contractName]

(* ---------- decodeContract ---------- *)
\* up to the suspension: the code request
decodeContractRequest(addressBytes) ==
  [type |-> "code", address |-> toAddress(addressBytes)]

\* a variant that does not ask for the context's contract name
decodeContract_anyContext(addressBytes, codeBytes, inf) ==
  LET address == toAddress(addressBytes)
      code == toHexString(codeBytes)
      context == findDecoderContext(inf.contexts, code)
  IN  IF context # 0
      THEN [kind |-> "known", address |-> address,
            class |-> contextToType(inf.contexts[context])]
      ELSE [kind |-> "unknown", address |-> address]

\* after the resumption with the fetched code
decodeContract(addressBytes, codeBytes, inf) ==
  LET address == toAddress(addressBytes)
      code == toHexString(codeBytes)
      context == findDecoderContext(inf.contexts, code)
  IN  IF context # 0 /\ inf.contexts[context].hasName
      THEN [kind |-> "known", address |-> address,
            class |-> contextToType(inf.contexts[context])]
      ELSE [kind |-> "unknown", address |-> address]

(* ---------- decodeExternalFunction ---------- *)
\* Object.values(info.contexts).find(context => context.contractId === contractId):
\* the index of the first such context, 0 for undefined
findContextById(contexts, contractId) ==
  LET hits == {i \in 1..Len(contexts) : contexts[i].contractId = contractId}
  IN  IF hits = {} THEN 0 ELSE Min(hits)

\* after the resumption of the nested decodeContract; the result is the
\* FunctionExternalValueInfo, or the TypeError of reading .abi of undefined
decodeExternalFunction(addressBytes, selectorBytes, codeBytes, inf) ==
  LET contract == decodeContract(addressBytes, codeBytes, inf)
      selector == toHexString(selectorBytes)
  IN  IF contract.kind = "unknown"
      THEN [kind |-> "unknown", contract |-> contract, selector |-> selector]
      ELSE LET contractId == contract.class.id
               context == findContextById(inf.contexts, contractId)
           IN  IF context = 0 THEN Throw("TypeError")
               ELSE LET abi == inf.contexts[context].abi
                        hasEntry == abi.defined /\ selector \in DOMAIN abi.entries
                    IN  IF ~hasEntry
                        THEN [kind |-> "invalid", contract |-> contract,
                              selector |-> selector]
                        ELSE [kind |-> "known", contract |-> contract,
                              selector |-> selector,
                              functionName |-> abi.entries[selector].name]

(* ---------- decodeInternalFunction ---------- *)
\* Conversion.toBN(bytes).toNumber(): a program counter is kept as the digit
\* string of its value (PC_SIZE bytes always fit a JavaScript number)
pcNumber(pcBytes) == toBN(pcBytes)

\* a variant with the two program counters exchanged
selectPc_swapped(inf, deployedPc, constructorPc) ==
  IF inf.currentContext.isConstructor THEN deployedPc ELSE constructorPc

\* pc = info.currentContext.isConstructor ? constructorPc : deployedPc
selectPc(inf, deployedPc, constructorPc) ==
  IF inf.currentContext.isConstructor THEN constructorPc ELSE deployedPc

\* a variant that tests for the pointer (0,0) before it tests for the table
internalFunctionPrecheck_zeroFirst(tableDefined, isConstructor, dPc, cPc) ==
  IF dPc = <<>> /\ cPc = <<>> THEN "exception"
  ELSE IF ~tableDefined THEN "unknown"
  ELSE IF dPc = <<>> /\ cPc # <<>> THEN "malformed"
  ELSE IF isConstructor /\ cPc = <<>> THEN "deployedInConstructor"
  ELSE "lookup"

\* the checks made before the table is read, in the order of the code:
\* no table, both PCs zero, only the deployed PC zero, a deployed-format
\* pointer in a constructor; otherwise the table is looked up
internalFunctionPrecheck(tableDefined, isConstructor, deployedPc, constructorPc) ==
  IF ~tableDefined THEN "unknown"
  ELSE IF deployedPc = <<>> /\ constructorPc = <<>> THEN "exception"
  ELSE IF deployedPc = <<>> /\ constructorPc # <<>> THEN "malformed"
  ELSE IF isConstructor /\ constructorPc = <<>> THEN "deployedInConstructor"
  ELSE "lookup"

\* the whole run of decodeInternalFunction: its result, and the indexes at
\* which it read info.internalFunctionsTable
decodeInternalFunctionRun(type, deployedPcBytes, constructorPcBytes, inf) ==
  LET deployedPc == pcNumber(deployedPcBytes)
      constructorPc == pcNumber(constructorPcBytes)
      context == [typeClass |-> "contract", id |-> inf.currentContext.contractId,
                  typeName |-> inf.currentContext.contractName]
      table == inf.internalFunctionsTable
      precheck == internalFunctionPrecheck(table.defined,
                    inf.currentContext.isConstructor, deployedPc, constructorPc)
      FnInfo(k) == [kind |-> k, context |-> context,
                    deployedProgramCounter |-> deployedPc,
                    constructorProgramCounter |-> constructorPc]
      Pcs == [deployedProgramCounter |-> deployedPc,
              constructorProgramCounter |-> constructorPc]
      Done(r, reads) == [result |-> r, reads |-> reads]
  IN  CASE precheck = "unknown" ->
             Done(Value("FunctionInternalValue", FnInfo("unknown")), {})
        [] precheck = "exception" ->
             Done(Value("FunctionInternalValue", FnInfo("exception")), {})
        [] precheck = "malformed" ->
             Done(ErrorResult("FunctionInternalErrorResult",
                              "MalformedInternalFunctionError", Pcs), {})
        [] precheck = "deployedInConstructor" ->
             Done(ErrorResult("FunctionInternalErrorResult",
                              "DeployedFunctionInConstructorError", Pcs), {})
        [] OTHER ->
             LET pcSel == selectPc(inf, deployedPc, constructorPc)
             IN  IF pcSel \notin DOMAIN table.entries
                 THEN Done(ErrorResult("FunctionInternalErrorResult",
                                       "NoSuchInternalFunctionError", Pcs), {pcSel})
                 ELSE LET functionEntry == table.entries[pcSel]
                      IN  IF functionEntry.isDesignatedInvalid
                          THEN Done(Value("FunctionInternalValue", FnInfo("exception")),
                                    {pcSel})
                          ELSE Done(Value("FunctionInternalValue",
                                     [kind |-> "known", context |-> context,
                                      deployedProgramCounter |-> deployedPc,
                                      constructorProgramCounter |-> constructorPc,
                                      name |-> functionEntry.name,
                                      definedIn |->
                                        [typeClass |-> "contract",
                                         id |-> functionEntry.contractId,
                                         typeName |-> functionEntry.contractName]]),
                                    {pcSel})

decodeInternalFunction(type, deployedPcBytes, constructorPcBytes, inf) ==
  decodeInternalFunctionRun(type, deployedPcBytes, constructorPcBytes, inf).result

(* ---------- decodeValue ---------- *)
\* the switch on dataType.typeClass, entered with the bytes that were read:
\* a result, a throw, or the suspension for the code request
decodeValue(type, b, inf, m) ==
  CASE type.typeClass = "bool" ->
         IF ~checkPaddingLeft(b, 1)
         THEN StopOrError(strict(m),
                ErrorResult("BoolErrorResult", "BoolPaddingError", toHexString(b)))
         ELSE LET numeric == toBN(b)
              IN  IF eqn(numeric, 0) THEN Value("BoolValue", FALSE)
                  ELSE IF eqn(numeric, 1) THEN Value("BoolValue", TRUE)
                  ELSE StopOrError(strict(m),
                         ErrorResult("BoolErrorResult", "BoolOutOfRangeError", numeric))
    [] type.typeClass = "uint" ->
         IF ~permissivePadding(m) /\ ~checkPaddingLeft(b, type.bits \div 8)
         THEN StopOrError(strict(m),
                ErrorResult("UintErrorResult", "UintPaddingError", toHexString(b)))
         ELSE Value("UintValue", toBN(sliceFrom(b, -(type.bits \div 8))))
    [] type.typeClass = "int" ->
         IF ~permissivePadding(m) /\ ~checkPaddingSigned(b, type.bits \div 8)
         THEN StopOrError(strict(m),
                ErrorResult("IntErrorResult", "IntPaddingError", toHexString(b)))
         ELSE Value("IntValue", toSignedBN(sliceFrom(b, -(type.bits \div 8))))
    [] type.typeClass = "address" ->
         IF ~permissivePadding(m) /\ ~checkPaddingLeft(b, ADDRESS_SIZE)
         THEN StopOrError(strict(m),
                ErrorResult("AddressErrorResult", "AddressPaddingError", toHexString(b)))
         ELSE Value("AddressValue", toAddress(b))
    [] type.typeClass = "contract" ->
         IF ~permissivePadding(m) /\ ~checkPaddingLeft(b, ADDRESS_SIZE)
         THEN StopOrError(strict(m),
                ErrorResult("ContractErrorResult", "ContractPaddingError", toHexString(b)))
         ELSE Yield(decodeContractRequest(b))
    [] type.typeClass = "bytes" ->
         IF type.kind = "static"
         THEN IF ~permissivePadding(m) /\ ~checkPaddingRight(b, type.length)
              THEN StopOrError(strict(m),
                     ErrorResult("BytesErrorResult", "BytesPaddingError", toHexString(b)))
              ELSE Value("BytesValue", toHexString(slice(b, 0, type.length)))
         ELSE Value("BytesValue", toHexString(b))
    [] type.typeClass = "string" ->
         Value("StringValue", b)
    [] type.typeClass = "function" /\ type.visibility = "external" ->
         IF ~checkPaddingRight(b, ADDRESS_SIZE + SELECTOR_SIZE)
         THEN StopOrError(strict(m),
                ErrorResult("FunctionExternalErrorResult",
                            "FunctionExternalNonStackPaddingError", toHexString(b)))
         ELSE Yield(decodeContractRequest(slice(b, 0, ADDRESS_SIZE)))
    [] type.typeClass = "function" /\ type.visibility = "internal" ->
         IF ~checkPaddingLeft(b, 2 * PC_SIZE)
         THEN StopOrError(strict(m),
                ErrorResult("FunctionInternalErrorResult",
                            "FunctionInternalPaddingError", toHexString(b)))
         ELSE decodeInternalFunction(type, sliceFrom(b, -PC_SIZE),
                                     slice(b, -(PC_SIZE * 2), -PC_SIZE), inf)
    [] type.typeClass = "enum" ->
         LET numeric == toBN(b)
             full == fullType(type, inf.userDefinedTypes)
         IN  IF ~full.hasOptions
             THEN StopOrError(strict(m),
                    ErrorResult("EnumErrorResult", "EnumNotFoundDecodingError", numeric))
             ELSE LET numOptions == Len(full.options)
                      numBytes == ceilLog2Div8(numOptions)
                  IN  IF ~checkPaddingLeft(b, numBytes)
                      THEN StopOrError(strict(m),
                             ErrorResult("EnumErrorResult", "EnumPaddingError",
                                         toHexString(b)))
                      ELSE IF ltn(numeric, numOptions)
                      THEN Value("EnumValue",
                                 [numeric |-> numeric,
                                  name |-> full.options[toNumber(numeric) + 1]])
                      ELSE StopOrError(strict(m),
                             ErrorResult("EnumErrorResult", "EnumOutOfRangeError",
                                         numeric))
    [] type.typeClass = "fixed" ->
         StopOrError(strict(m),
           ErrorResult("FixedErrorResult", "FixedPointNotYetSupportedError",
                       toHexString(b)))
    [] type.typeClass = "ufixed" ->
         StopOrError(strict(m),
           ErrorResult("UfixedErrorResult", "FixedPointNotYetSupportedError",
                       toHexString(b)))
    [] OTHER -> ReturnUndefined

\* the table indexes read while decodeValue ran on these bytes
decodeValueTableReads(type, b, inf, m) ==
  IF type.typeClass = "function" /\ type.visibility = "internal"
     /\ checkPaddingLeft(b, 2 * PC_SIZE)
  THEN decodeInternalFunctionRun(type, sliceFrom(b, -PC_SIZE),
                                 slice(b, -(PC_SIZE * 2), -PC_SIZE), inf).reads
  ELSE {}

\* the rest of decodeValue after the code request was answered
decodeValueResume(type, b, inf, codeBytes) ==
  IF type.typeClass = "contract"
  THEN Value("ContractValue", decodeContract(b, codeBytes, inf))
  ELSE LET address == slice(b, 0, ADDRESS_SIZE)
           selector == slice(b, ADDRESS_SIZE, ADDRESS_SIZE + SELECTOR_SIZE)
           fn == decodeExternalFunction(address, selector, codeBytes, inf)
       IN  IF fn.kind = "throw" THEN fn
           ELSE Value("FunctionExternalValue", fn)

\* the catch clause around the read
decodeValueReadFailed(type, m) ==
  StopOrError(strict(m), ErrorResult("GenericErrorResult", "ReadError", <<>>))

(* ---------- the explored inputs ---------- *)
Modes == {"normal", "permissive", "strict"}

Type(tc) == [typeClass |-> tc, bits |-> 0, kind |-> "", length |-> 0,
             visibility |-> "", id |-> 0, hasOptions |-> FALSE, options |-> <<>>]

BitWidths == {8, 16, 256}
StaticLengths == {1, 4, 32}

Types ==
  {Type("bool"), Type("address"), Type("contract"), Type("string"),
   Type("fixed"), Type("ufixed")}
  \cup {[Type("uint") EXCEPT !.bits = n] : n \in BitWidths}
  \cup {[Type("int") EXCEPT !.bits = n] : n \in BitWidths}
  \cup {[Type("bytes") EXCEPT !.kind = "static", !.length = n] : n \in StaticLengths}
  \cup {[Type("bytes") EXCEPT !.kind = "dynamic"]}
  \cup {[Type("function") EXCEPT !.visibility = v] : v \in {"external", "internal"}}
  \cup {[Type("enum") EXCEPT !.id = 1]}

\* option i (counted from 0) of an enum is named OptionName(i)
OptionName(i) == 1000 + i
Options(n) == [i \in 1..n |-> OptionName(i - 1)]
OptionCounts == (1..MaxOptions) \cup {256, 257}

UserDefinedTypes ==
  {<<>>} \cup {[i \in {1} |-> [options |-> Options(n)]] : n \in OptionCounts}

\* the selector the ABIs know, and the binaries of the registered contexts
KnownSelector == toHexString(<<0, 0, 0, 1>>)
Abis ==
  {[defined |-> FALSE, entries |-> <<>>],
   [defined |-> TRUE, entries |-> <<>>],
   [defined |-> TRUE, entries |-> [s \in {KnownSelector} |-> [name |-> "f"]]]}

ContextKinds ==
  {[contractId |-> 1, hasName |-> TRUE, contractName |-> "A", abi |-> a] :
     a \in {x \in Abis : x.entries # <<>> \/ ~x.defined}}
  \cup {[contractId |-> 2, hasName |-> FALSE, contractName |-> "", abi |-> a] :
     a \in {x \in Abis : x.defined /\ x.entries = <<>>}}

\* a registry: up to MaxContexts contexts, the one at position i keyed by binary <<i>>
Registries ==
  UNION {{[i \in 1..n |-> [binary |-> toHexString(<<i>>),
                           contractId |-> f[i].contractId,
                           hasName |-> f[i].hasName,
                           contractName |-> f[i].contractName,
                           abi |-> f[i].abi]] :
            f \in [1..n -> ContextKinds]} : n \in 0..MaxContexts}

CodeResponses == {<<i>> : i \in 0..MaxContexts}

PcKey(n) == <<n>>
Entries ==
  {[isDesignatedInvalid |-> TRUE, name |-> "", contractId |-> 0, contractName |-> ""],
   [isDesignatedInvalid |-> FALSE, name |-> "g", contractId |-> 3, contractName |-> "L"]}

Tables ==
  {[defined |-> FALSE, entries |-> <<>>]}
  \cup UNION {{[defined |-> TRUE, entries |-> [k \in {PcKey(n) : n \in D} |-> f[k]]] :
                 f \in [{PcKey(n) : n \in D} -> Entries]} : D \in SUBSET (1..MaxPc)}

CurrentContext(c) == [contractId |-> 1, contractName |-> "A", isConstructor |-> c]

BaseInfo ==
  [contexts |-> <<>>, userDefinedTypes |-> <<>>,
   internalFunctionsTable |-> [defined |-> FALSE, entries |-> <<>>],
   currentContext |-> CurrentContext(FALSE)]

\* the parts of EvmInfo a type class reads are varied, the others left at BaseInfo
Infos(type) ==
  CASE type.typeClass = "enum" ->
         {[BaseInfo EXCEPT !.userDefinedTypes = u] : u \in UserDefinedTypes}
    [] type.typeClass = "contract"
       \/ (type.typeClass = "function" /\ type.visibility = "external") ->
         {[BaseInfo EXCEPT !.contexts = r] : r \in Registries}
    [] type.typeClass = "function" /\ type.visibility = "internal" ->
         {[BaseInfo EXCEPT !.internalFunctionsTable = t,
                           !.currentContext = CurrentContext(c)] :
            t \in Tables, c \in BOOLEAN}
    [] OTHER -> {BaseInfo}

\* words: bytes a up to position k-1, b at k, c up to WORD_SIZE-1, d at WORD_SIZE
SplitPoints == {1, 12, 13, 20, 24, 25, 28, 30, 31, 32}
FillBytes == {0, 255}
EdgeBytes == {0, 1, 2, 128, 255}
Word(k, a, b, c, d) ==
  [i \in 1..WORD_SIZE |->
     IF i < k THEN a ELSE IF i = k THEN b ELSE IF i < WORD_SIZE THEN c ELSE d]
Words ==
  {Word(k, a, b, c, d) :
     k \in SplitPoints, a \in FillBytes, b \in EdgeBytes, c \in FillBytes, d \in EdgeBytes}

(* ---------- the decode as a state machine ---------- *)
Init ==
  /\ dataType \in Types
  /\ mode \in Modes
  /\ info \in Infos(dataType)
  /\ pc = "start"
  /\ bytes = <<>>
  /\ fetched = <<>>
  /\ result = NoResult
  /\ requests = <<>>
  /\ tableReads = {}

\* the first next(): decodeValue runs into yield* read(pointer, state)
Start ==
  /\ pc = "start"
  /\ pc' = "read"
  /\ requests' = Append(requests, [type |-> "read"])
  /\ UNCHANGED <<dataType, mode, info, bytes, fetched, result, tableReads>>

\* the read throws: the catch clause ends the decode
ReadThrows ==
  /\ pc = "read"
  /\ pc' = "done"
  /\ result' = decodeValueReadFailed(dataType, mode)
  /\ UNCHANGED <<dataType, mode, info, bytes, fetched, requests, tableReads>>

\* the read returns a word: the switch runs to its result or to the code request
ReadReturns ==
  /\ pc = "read"
  /\ \E w \in Words :
       LET r == decodeValue(dataType, w, info, mode)
       IN  /\ bytes' = w
           /\ tableReads' = decodeValueTableReads(dataType, w, info, mode)
           /\ IF r.kind = "yield"
              THEN /\ pc' = "code"
                   /\ requests' = Append(requests, r.request)
                   /\ result' = result
              ELSE /\ pc' = "done"
                   /\ requests' = requests
                   /\ result' = r
  /\ UNCHANGED <<dataType, mode, info, fetched>>

\* the code request is answered: the decode runs to its end
CodeReturns ==
  /\ pc = "code"
  /\ \E codeBytes \in CodeResponses :
       /\ fetched' = codeBytes
       /\ result' = decodeValueResume(dataType, bytes, info, codeBytes)
  /\ pc' = "done"
  /\ UNCHANGED <<dataType, mode, info, bytes, requests, tableReads>>

Next == Start \/ ReadThrows \/ ReadReturns \/ CodeReturns

Spec == Init /\ [][Next]_vars

(* ---------- vocabulary of the properties ---------- *)
Finished == pc = "done"
ReadSucceeded == bytes # <<>>
IsValue(name) == result.kind = "value" /\ result.result = name
IsError(name) == result.kind = "error" /\ result.error = name
Aborted == result.kind = "throw" /\ result.error = "StopDecodingError"
IsClass(tc) == dataType.typeClass = tc
IsFunction(v) == dataType.typeClass = "function" /\ dataType.visibility = v

PaddingErrors ==
  {"BoolPaddingError", "UintPaddingError", "IntPaddingError", "AddressPaddingError",
   "ContractPaddingError", "BytesPaddingError", "FunctionExternalNonStackPaddingError",
   "FunctionInternalPaddingError", "EnumPaddingError"}
IsPaddingError == result.kind = "error" /\ result.error \in PaddingErrors

\* some byte of the word at positions lo..hi (counted from 1) is not zero
NonZeroIn(lo, hi) == \E i \in lo..hi : bytes[i] # 0

\* the two program counters of the word of an internal function pointer
DeployedPcOfWord == toBN(SubSeq(bytes, WORD_SIZE - PC_SIZE + 1, WORD_SIZE))
ConstructorPcOfWord ==
  toBN(SubSeq(bytes, WORD_SIZE - 2 * PC_SIZE + 1, WORD_SIZE - PC_SIZE))
InternalDecoded ==
  /\ IsFunction("internal") /\ Finished /\ ReadSucceeded
  /\ ~NonZeroIn(1, WORD_SIZE - 2 * PC_SIZE)

(* ---------- C1 ---------- *)
\* C1: in strict mode a finished decode never holds an ErrorResult: every
\* error condition ends the decode with StopDecodingError instead.
C1_StrictNeverReturnsError ==
  (Finished /\ mode = "strict") => result.kind # "error"

EnumWidth(n) == IF n <= 1 THEN 0 ELSE IF n <= 256 THEN 1 ELSE 2

C3_NormalPermissiveNeverAbort ==
  (mode # "strict") =>
    /\ Finished => result.kind \in {"value", "error"}
    /\ ~Finished => (result = NoResult /\ ENABLED Next)

\* an embedded error after a failed read, in normal mode
C3_Witness ==
  /\ mode = "normal" /\ Finished /\ ~ReadSucceeded
  /\ result.kind = "error" /\ result.result = "GenericErrorResult"

(* ---------- C4 ---------- *)
\* C4 as stated: the pointer (0,0) gives a FunctionInternalValue carrying the
\* Exception info whether or not a Program-Counter Table is configured.
C4_ZeroPairAlwaysException ==
  (InternalDecoded /\ DeployedPcOfWord = <<>> /\ ConstructorPcOfWord = <<>>) =>
    (IsValue("FunctionInternalValue") /\ result.value.kind = "exception")

\* C4 amended: the pointer (0,0) gives a FunctionInternalValue carrying the
\* Exception info whenever a Program-Counter Table is configured, whatever the
\* table holds and whatever the constructor flag; with no table configured it
\* gives a FunctionInternalValue carrying the Unknown info.
C4_ZeroPairExceptionWithTable ==
  (InternalDecoded /\ DeployedPcOfWord = <<>> /\ ConstructorPcOfWord = <<>>) =>
    /\ IsValue("FunctionInternalValue")
    /\ result.value.kind =
         (IF info.internalFunctionsTable.defined THEN "exception" ELSE "unknown")
    /\ tableReads = {}

\* (0,0) decoded in a constructor context with a non-empty table
C4_Witness ==
  /\ InternalDecoded /\ DeployedPcOfWord = <<>> /\ ConstructorPcOfWord = <<>>
  /\ info.internalFunctionsTable.defined
  /\ DOMAIN info.internalFunctionsTable.entries # {}
  /\ info.currentContext.isConstructor
  /\ IsValue("FunctionInternalValue") /\ result.value.kind = "exception"

(* ---------- C5 ---------- *)
\* the outcome the precedence of C5 gives for the pointer (d, c)
C5_Expected(d, c, isConstructor, entries) ==
  IF d = <<>> /\ c = <<>> THEN [outcome |-> "exception", reads |-> {}]
  ELSE IF d = <<>> THEN [outcome |-> "MalformedInternalFunctionError", reads |-> {}]
  ELSE IF isConstructor /\ c = <<>>
  THEN [outcome |-> "DeployedFunctionInConstructorError", reads |-> {}]
  ELSE LET p == IF isConstructor THEN c ELSE d
       IN  IF p \notin DOMAIN entries
           THEN [outcome |-> "NoSuchInternalFunctionError", reads |-> {p}]
           ELSE IF entries[p].isDesignatedInvalid
           THEN [outcome |-> "exception", reads |-> {p}]
           ELSE [outcome |-> "known", reads |-> {p}]

C5_Outcome ==
  IF result.kind = "error" THEN result.error
  ELSE IF result.kind = "value" /\ result.result = "FunctionInternalValue"
  THEN result.value.kind
  ELSE "other"

\* C5: with a table configured the outcome follows the precedence (0,0),
\* Malformed, DeployedFunctionInConstructor, lookup of the selected pc; a Known
\* value carries the entry's name and defining contract; the table is never
\* read at pc = 0; outside a constructor the outcome is the one of (d, 0).
C5_InternalPrecedence ==
  (InternalDecoded /\ info.internalFunctionsTable.defined) =>
    LET d == DeployedPcOfWord
        c == ConstructorPcOfWord
        entries == info.internalFunctionsTable.entries
        isConstructor == info.currentContext.isConstructor
        e == C5_Expected(d, c, isConstructor, entries)
    IN  /\ C5_Outcome = e.outcome
        /\ tableReads = e.reads
        /\ <<>> \notin tableReads
        /\ e.outcome = "known" =>
             LET p == IF isConstructor THEN c ELSE d
             IN  /\ result.value.name = entries[p].name
                 /\ result.value.definedIn.id = entries[p].contractId
                 /\ result.value.definedIn.typeName = entries[p].contractName
        /\ (~isConstructor /\ d # <<>>) =>
             C5_Outcome = C5_Expected(d, <<>>, FALSE, entries).outcome

\* outside a constructor, both PCs nonzero and different: the deployed one is
\* looked up and found
C5_Witness ==
  /\ InternalDecoded /\ info.internalFunctionsTable.defined
  /\ ~info.currentContext.isConstructor
  /\ DeployedPcOfWord = PcKey(1) /\ ConstructorPcOfWord = PcKey(2)
  /\ PcKey(2) \notin DOMAIN info.internalFunctionsTable.entries
  /\ IsValue("FunctionInternalValue") /\ result.value.kind = "known"

(* ---------- C6 ---------- *)
ExternalDecoded ==
  /\ IsFunction("external") /\ Finished /\ ReadSucceeded
  /\ ~NonZeroIn(ADDRESS_SIZE + SELECTOR_SIZE + 1, WORD_SIZE)

\* the first context of the registry the fetched code matches, 0 if none
C6_Matched ==
  LET hits == {i \in 1..Len(info.contexts) :
                 info.contexts[i].binary = toHexString(fetched)}
  IN  IF hits = {} THEN 0 ELSE Min(hits)

\* the first context of the registry with the contract id of context m
C6_ById(m) ==
  Min({i \in 1..Len(info.contexts) :
         info.contexts[i].contractId = info.contexts[m].contractId})

\* C6: an external function whose word passes the right-padding check decodes,
\* in every mode, to a FunctionExternalValue: Unknown when the code matches no
\* context or the matched context has no name; else Invalid when the selector
\* (bytes 20..23) is not in the ABI of the context with the contract's id, and
\* Known with that ABI entry's name when it is.  The address is the leftmost
\* ADDRESS_SIZE bytes.
C6_ExternalFunctionOutcome ==
  ExternalDecoded =>
    /\ IsValue("FunctionExternalValue")
    /\ LET v == result.value
           m == C6_Matched
           addr == toHexString(SubSeq(bytes, 1, ADDRESS_SIZE))
           sel == toHexString(SubSeq(bytes, ADDRESS_SIZE + 1,
                                     ADDRESS_SIZE + SELECTOR_SIZE))
       IN  /\ v.contract.address = addr
           /\ v.selector = sel
           /\ requests[2] = [type |-> "code", address |-> addr]
           /\ IF m = 0 \/ ~info.contexts[m].hasName
              THEN v.kind = "unknown" /\ v.contract.kind = "unknown"
              ELSE LET abi == info.contexts[C6_ById(m)].abi
                   IN  /\ v.contract.kind = "known"
                       /\ v.contract.class.id = info.contexts[m].contractId
                       /\ IF abi.defined /\ sel \in DOMAIN abi.entries
                          THEN /\ v.kind = "known"
                               /\ v.functionName = abi.entries[sel].name
                          ELSE v.kind = "invalid"

\* Known, found through a context other than the matched one, in strict mode
C6_Witness ==
  /\ ExternalDecoded /\ mode = "strict"
  /\ C6_Matched # 0 /\ C6_ById(C6_Matched) # C6_Matched
  /\ ~info.contexts[C6_Matched].abi.defined
  /\ IsValue("FunctionExternalValue") /\ result.value.kind = "known"

(* ---------- C7 ---------- *)
\* the unsigned value of the last two bytes of the word
LowTwoBytes == 256 * bytes[WORD_SIZE - 1] + bytes[WORD_SIZE]

\* C7: for uint(N) and a word that was read: in normal mode the result is
\* UintPaddingError (StopDecodingError in strict mode) exactly when a byte left
\* of the rightmost N/8 bytes of the full word is not zero; otherwise, and
\* always in permissive mode, it is the UintValue of the rightmost N/8 bytes,
\* which is below 2^N and, when the padding is valid, the value of the word.
C7_UintDecode ==
  (IsClass("uint") /\ Finished /\ ReadSucceeded) =>
    LET w == dataType.bits \div 8
        padBad == NonZeroIn(1, WORD_SIZE - w)
    IN  /\ (mode = "normal" /\ padBad) => IsError("UintPaddingError")
        /\ (mode = "strict" /\ padBad) => Aborted
        /\ (mode = "permissive" \/ ~padBad) =>
             /\ IsValue("UintValue")
             /\ result.value = toBN(SubSeq(bytes, WORD_SIZE - w + 1, WORD_SIZE))
             /\ Len(result.value) <= w
             /\ ~padBad => result.value = toBN(bytes)
             /\ w = 1 => toNumber(result.value) = bytes[WORD_SIZE]
             /\ w = 2 => toNumber(result.value) = LowTwoBytes

\* uint8 of 30 zero bytes, 0x01, 0xFF in permissive mode: UintValue(255)
C7_Witness ==
  /\ IsClass("uint") /\ dataType.bits = 8 /\ mode = "permissive" /\ Finished
  /\ ReadSucceeded /\ ~NonZeroIn(1, WORD_SIZE - 2)
  /\ bytes[WORD_SIZE - 1] = 1 /\ bytes[WORD_SIZE] = 255
  /\ IsValue("UintValue") /\ result.value = <<255>>

(* ---------- C8 ---------- *)
\* a signed BN lies in [-2^(8w-1), 2^(8w-1))
C8_InRange(v, w) ==
  LET small == Len(v.mag) < w \/ (Len(v.mag) = w /\ v.mag[1] < 128)
      least == /\ Len(v.mag) = w /\ v.mag[1] = 128
               /\ \A i \in 2..w : v.mag[i] = 0
  IN  IF v.neg THEN small \/ least ELSE small

C8_Number(v) == IF v.neg THEN 0 - toNumber(v.mag) ELSE toNumber(v.mag)

\* C8: for int(N), a word that was read and normal mode: the result is IntValue
\* exactly when every byte left of the rightmost N/8 bytes is 0xFF if the top
\* bit of those bytes is set and 0x00 if not, and IntPaddingError otherwise;
\* the value is the two's-complement value of the rightmost N/8 bytes, lies in
\* [-2^(N-1), 2^(N-1)) and is the two's-complement value of the full word; with
\* N/8 the width of the word the check never fails.
C8_IntDecode ==
  (IsClass("int") /\ Finished /\ ReadSucceeded /\ mode = "normal") =>
    LET w == dataType.bits \div 8
        negative == bytes[WORD_SIZE - w + 1] >= 128
        extension == IF negative THEN 255 ELSE 0
        padOk == \A i \in 1..(WORD_SIZE - w) : bytes[i] = extension
    IN  /\ IsValue("IntValue") <=> padOk
        /\ ~padOk => IsError("IntPaddingError")
        /\ w = WORD_SIZE => padOk
        /\ padOk =>
             /\ result.value = toSignedBN(SubSeq(bytes, WORD_SIZE - w + 1, WORD_SIZE))
             /\ result.value.neg = negative
             /\ C8_InRange(result.value, w)
             /\ result.value = toSignedBN(bytes)
             /\ w = 1 => C8_Number(result.value) =
                           bytes[WORD_SIZE] - (IF negative THEN 256 ELSE 0)
             /\ w = 2 => C8_Number(result.value) =
                           LowTwoBytes - (IF negative THEN 65536 ELSE 0)

\* int8 of 31 bytes 0xFF and 0x80: IntValue(-128)
C8_Witness ==
  /\ IsClass("int") /\ dataType.bits = 8 /\ mode = "normal" /\ Finished
  /\ ReadSucceeded /\ \A i \in 1..(WORD_SIZE - 1) : bytes[i] = 255
  /\ bytes[WORD_SIZE] = 128
  /\ IsValue("IntValue") /\ result.value = [neg |-> TRUE, mag |-> <<128>>]

(* ---------- C9 ---------- *)
\* the result is the given error, or StopDecodingError in strict mode
C9_Fails(err) == IF mode = "strict" THEN Aborted ELSE IsError(err)

\* C9: for an enum and a word that was read: unresolved options give
\* EnumNotFoundDecodingError; with n >= 1 options the result is EnumValue
\* exactly when the value of the full word is below n, named options[value];
\* a value >= n gives EnumOutOfRangeError when it fits in ceil(log2(n)/8) bytes
\* and EnumPaddingError when it does not (StopDecodingError in strict mode).
C9_EnumDecode ==
  (IsClass("enum") /\ Finished /\ ReadSucceeded) =>
    IF 1 \notin DOMAIN info.userDefinedTypes
    THEN C9_Fails("EnumNotFoundDecodingError")
    ELSE LET n == Len(info.userDefinedTypes[1].options)
             inRange == ~NonZeroIn(1, WORD_SIZE - 2) /\ LowTwoBytes < n
             fits == ~NonZeroIn(1, WORD_SIZE - EnumWidth(n))
         IN  /\ IsValue("EnumValue") <=> inRange
             /\ inRange => /\ fits
                           /\ result.value.name = OptionName(LowTwoBytes)
             /\ (~inRange /\ fits) => C9_Fails("EnumOutOfRangeError")
             /\ (~inRange /\ ~fits) => C9_Fails("EnumPaddingError")

(* ---------- C10 ---------- *)
CodeRequests == {i \in 1..Len(requests) : requests[i].type = "code"}
FetchesCode == IsClass("contract") \/ IsFunction("external")

\* C10: the read is the first suspension; a code request is issued at most
\* once, only for contract and external function, only after the read returned
\* a word whose padding check passed (or was skipped, for contract in
\* permissive mode), never after a failed read; every other type class is
\* finished by the answer to the read.
C10_Suspensions ==
  /\ pc = "start" => requests = <<>>
  /\ pc # "start" => (Len(requests) >= 1 /\ requests[1] = [type |-> "read"])
  /\ Cardinality(CodeRequests) <= 1
  /\ (pc = "code") => CodeRequests # {}
  /\ CodeRequests # {} =>
       /\ CodeRequests = {2}
       /\ FetchesCode
       /\ ReadSucceeded
       /\ IsClass("contract") =>
            (mode = "permissive" \/ ~NonZeroIn(1, WORD_SIZE - ADDRESS_SIZE))
       /\ IsFunction("external") =>
            ~NonZeroIn(ADDRESS_SIZE + SELECTOR_SIZE + 1, WORD_SIZE)
  /\ (pc \in {"code", "done"} /\ ~ReadSucceeded) =>
       (Finished /\ Len(requests) = 1)
  /\ (ReadSucceeded /\ ~FetchesCode) => (Finished /\ Len(requests) = 1)

\* a contract whose padding is violated, in permissive mode, waiting for code
C10_Witness ==
  /\ IsClass("contract") /\ mode = "permissive" /\ pc = "code"
  /\ NonZeroIn(1, WORD_SIZE - ADDRESS_SIZE)
  /\ Len(requests) = 2 /\ requests[2].type = "code"

====
